---- MODULE Spec2Model ----
(***************************************************************************)
(* The accrual engine of loan_logic.py: amount_due_with_payments and its   *)
(* companion predicates.                                                   *)
(*                                                                         *)
(* Dates are day numbers.  Money is an integer number of units, one unit   *)
(* being 1/4800 of the currency unit (1/48 of a cent), so that amounts     *)
(* with a fraction of a cent are inputs too; rates are fortieths           *)
(* (0.10 = 4/40, 0.025 = 1/40).  The inputs are multiples of Grain, which  *)
(* makes every product principal_rem * rate exact (ExactArith below): the  *)
(* model computes in exact arithmetic what the code computes in binary     *)
(* floating point, whose representation error (of the order of 1e-16       *)
(* relative) it does not carry.  The returned figures are in cents.        *)
(***************************************************************************)
EXTENDS Integers, Sequences, FiniteSets, TLC

\* ------------------------------------------------------------------ bounds
MaxPays == 2     \* payments in the list handed to the engine
MaxDay == 21     \* latest day offset from disbursed_on of as_of and paid_on
MaxPhase == 1    \* day offsets taken: those d with d % 7 <= MaxPhase
MaxTerm == 2     \* term_weeks given: 1..MaxTerm
MaxDue == 7      \* agreed_due_on given: disbursed_on + an offset <= MaxDue
MaxShift == 0    \* disbursed_on: 0..MaxShift

\* ------------------------------------------------------- units and inputs
RateDen == 40
DefaultWeeklyRate == 4
DefaultLateStepRate == 1
Eps == 0
None == -1
\* processing_fee_rate, in hundredths: 0.01
DefaultProcessingFeeRate == 1

UnitsPerCurrency == 3 * RateDen * RateDen
Cent == UnitsPerCurrency \div 100

RECURSIVE Pow(_, _)
Pow(b, e) == IF e = 0 THEN 1 ELSE b * Pow(b, e - 1)

Grain == Pow(RateDen, MaxPays + 1)

Min(a, b) == IF a <= b THEN a ELSE b
Max(a, b) == IF a >= b THEN a ELSE b

\* x * n / RateDen, the product of an amount and a rate of n fortieths
MulRate(x, n) == (x \div RateDen) * n + ((x % RateDen) * n) \div RateDen

\* ------------------------------------------------------------ week counting
\* whole weeks only: the floor instead of the ceiling
ceil_weeks_Floor(days) == IF days <= 0 THEN 0 ELSE days \div 7

ceil_weeks(days) == IF days <= 0 THEN 0 ELSE (days + 6) \div 7

overdue_weeks(as_of, due_on, disbursed_on) ==
    IF due_on = None \/ as_of <= due_on THEN 0 ELSE ceil_weeks(as_of - due_on)

\* ------------------------------------------------------------- call inputs
Offsets == {d \in 0..MaxDay : d % 7 <= MaxPhase}
DueOffsets == {d \in Offsets : d <= MaxDue}
\* 200,000.00, the principal of the specification's worked example
ExamplePrincipal == 200000 * UnitsPerCurrency
\* 0, an amount that is not a whole number of cents, and the example's
Principals == {0, 2 * Grain, ExamplePrincipal}
\* payment amounts for a loan of principal p: a fortieth of it (a quarter of one
\* week's interest at the default rate), half of it, and principal plus one
\* week's default interest
Amounts(p) ==
    LET b == IF p = 0 THEN Grain ELSE p
    IN  {b \div RateDen, b \div 2, b + b \div 10}
Rates == {<<DefaultWeeklyRate, DefaultLateStepRate>>, <<0, DefaultLateStepRate>>}

PaymentsOn(p, d0) == [amount : Amounts(p), paid_on : {d0 + o : o \in Offsets}]
PaymentLists(p, d0) == UNION {[1..n -> PaymentsOn(p, d0)] : n \in 0..MaxPays}

\* term_weeks / agreed_due_on as passed: at most one of them given
TermArgs(d0) ==
    {<<None, None>>}
        \cup {<<w, None>> : w \in 1..MaxTerm}
        \cup {<<None, d0 + o>> : o \in DueOffsets}

\* ------------------------------------------------- normalisation of payments
\* pays.sort(key=lambda x: (x.paid_on, x.amount))
KeyLeq(p, q) == p.paid_on < q.paid_on \/ (p.paid_on = q.paid_on /\ p.amount <= q.amount)

RECURSIVE Insert(_, _)
Insert(p, s) ==
    IF s = <<>> THEN <<p>>
    ELSE IF KeyLeq(Head(s), p) THEN <<Head(s)>> \o Insert(p, Tail(s))
    ELSE <<p>> \o s

\* the sorted list s with only the first payment of each date kept
RECURSIVE FirstPerDate(_)
FirstPerDate(s) ==
    IF Len(s) <= 1 THEN s
    ELSE IF s[1].paid_on = s[2].paid_on THEN FirstPerDate(<<s[1]>> \o Tail(Tail(s)))
    ELSE <<s[1]>> \o FirstPerDate(Tail(s))

\* sorted, and one payment kept per date
RECURSIVE SortPays_OnePerDate(_)
SortPays_OnePerDate(s) ==
    IF s = <<>> THEN <<>>
    ELSE FirstPerDate(Insert(Head(s), SortPays_OnePerDate(Tail(s))))

\* the list left in the order it was supplied
SortPays_Unsorted(s) == s

RECURSIVE SortPays(_)
SortPays(s) == IF s = <<>> THEN <<>> ELSE Insert(Head(s), SortPays(Tail(s)))

\* the evaluation date itself left out
OnOrBefore_Strict(p, as_of) == p.paid_on < as_of

\* no filter on the payment date
OnOrBefore_All(p, as_of) == TRUE

OnOrBefore(p, as_of) == p.paid_on <= as_of

NormalizePays(payments, as_of) ==
    SortPays(SelectSeq(payments, LAMBDA p : OnOrBefore(p, as_of)))

\* ------------------------------------------------------- term / due defaults
\* <<term_weeks, agreed_due_on>> after the defaults
\* without the one-week default when neither is given
ResolveTerm_NoDefault(tw, due, disbursed_on) ==
    IF due = None /\ tw = None THEN <<None, None>>
    ELSE IF due = None /\ tw # None THEN <<tw, disbursed_on + 7 * tw>>
    ELSE IF tw = None /\ due # None THEN <<Max(1, ceil_weeks(due - disbursed_on)), due>>
    ELSE <<tw, due>>

ResolveTerm(tw, due, disbursed_on) ==
    IF due = None /\ tw = None THEN <<1, disbursed_on + 7>>
    ELSE IF due = None /\ tw # None THEN <<tw, disbursed_on + 7 * tw>>
    ELSE IF tw = None /\ due # None THEN <<Max(1, ceil_weeks(due - disbursed_on)), due>>
    ELSE <<tw, due>>

\* ----------------------------------------------------------- engine state
\* st: [principal_rem, accrued_interest, accrued_late, pre_charged_weeks,
\*      over_charged_weeks]; L: the loan, [disbursed_on, term_weeks,
\*      agreed_due_on, weekly_interest_rate, late_step_rate]
InitState(principal) ==
    [principal_rem |-> principal, accrued_interest |-> 0, accrued_late |-> 0,
     pre_charged_weeks |-> 0, over_charged_weeks |-> 0]

\* the waterfall without the cap of the principal's share at principal_rem
ApplyPayment_NoPrincipalCap(st, amount) ==
    LET take_i == Min(st.accrued_interest, amount)
        amt1 == amount - take_i
        take_l == Min(st.accrued_late, amt1)
        amt2 == amt1 - take_l
    IN  [st EXCEPT !.accrued_interest = @ - take_i,
                   !.accrued_late = @ - take_l,
                   !.principal_rem = @ - amt2]

\* the late penalty's share taken from the payment and left on the balance
ApplyPayment_LateNotReduced(st, amount) ==
    LET take_i == Min(st.accrued_interest, amount)
        amt1 == amount - take_i
        take_l == Min(st.accrued_late, amt1)
        amt2 == amt1 - take_l
        take_p == Min(st.principal_rem, amt2)
    IN  [st EXCEPT !.accrued_interest = @ - take_i,
                   !.principal_rem = @ - take_p]

\* the payment taken from the principal before interest and late
ApplyPayment_PrincipalFirst(st, amount) ==
    LET take_p == Min(st.principal_rem, amount)
        amt1 == amount - take_p
        take_i == Min(st.accrued_interest, amt1)
        amt2 == amt1 - take_i
        take_l == Min(st.accrued_late, amt2)
    IN  [st EXCEPT !.accrued_interest = @ - take_i,
                   !.accrued_late = @ - take_l,
                   !.principal_rem = @ - take_p]

ApplyPayment(st, amount) ==
    LET take_i == Min(st.accrued_interest, amount)
        amt1 == amount - take_i
        take_l == Min(st.accrued_late, amt1)
        amt2 == amt1 - take_l
        take_p == Min(st.principal_rem, amt2)
    IN  [st EXCEPT !.accrued_interest = @ - take_i,
                   !.accrued_late = @ - take_l,
                   !.principal_rem = @ - take_p]

\* take_i + take_l + take_p, the amounts _apply_payment returns
TakenBy(st, amount) ==
    LET take_i == Min(st.accrued_interest, amount)
        amt1 == amount - take_i
        take_l == Min(st.accrued_late, amt1)
        amt2 == amt1 - take_l
        take_p == Min(st.principal_rem, amt2)
    IN  take_i + take_l + take_p

\* the interest one started week adds
WeekInterest(st, L) ==
    IF st.principal_rem > Eps THEN MulRate(st.principal_rem, L.weekly_interest_rate)
    ELSE 0

\* the late penalty the next started overdue week adds
WeekLate(st, L) ==
    IF st.principal_rem > Eps
    THEN MulRate(st.principal_rem, (st.over_charged_weeks + 1) * L.late_step_rate)
    ELSE 0

\* the pre-due weeks counted to the target date, the due date not limiting them
TotalPreStarted_NoDueCap(L, target) ==
    LET total == ceil_weeks(target - L.disbursed_on)
        cap == IF L.term_weeks # None /\ L.term_weeks # 0 THEN L.term_weeks ELSE total
    IN  Max(0, Min(total, cap))

\* the pre-due weeks started as of the day before the target date
TotalPreStarted_DayBefore(L, target) ==
    LET pre_limit_date == IF L.agreed_due_on # None THEN Min(target - 1, L.agreed_due_on)
                          ELSE target - 1
        total == ceil_weeks(pre_limit_date - L.disbursed_on)
        cap == IF L.term_weeks # None /\ L.term_weeks # 0 THEN L.term_weeks ELSE total
    IN  Max(0, Min(total, cap))

TotalPreStarted(L, target) ==
    LET pre_limit_date == IF L.agreed_due_on # None THEN Min(target, L.agreed_due_on)
                          ELSE target
        total == ceil_weeks(pre_limit_date - L.disbursed_on)
        cap == IF L.term_weeks # None /\ L.term_weeks # 0 THEN L.term_weeks ELSE total
    IN  Max(0, Min(total, cap))

TotalOverStarted(L, target) ==
    IF L.agreed_due_on # None /\ target > L.agreed_due_on
    THEN ceil_weeks(target - L.agreed_due_on)
    ELSE 0

PrePending(st, L, target) == st.pre_charged_weeks < TotalPreStarted(L, target)

OverPending(st, L, target) == st.over_charged_weeks < TotalOverStarted(L, target)

\* a week's interest of at least one unit, charged whatever principal remains
ChargePreWeek_MinimumCharge(st, L) ==
    [st EXCEPT !.pre_charged_weeks = @ + 1,
               !.accrued_interest =
                   @ + Max(1, MulRate(st.principal_rem, L.weekly_interest_rate))]

ChargePreWeek(st, L) ==
    IF st.principal_rem > Eps
    THEN [st EXCEPT !.pre_charged_weeks = @ + 1,
                    !.accrued_interest = @ + MulRate(st.principal_rem, L.weekly_interest_rate)]
    ELSE [st EXCEPT !.pre_charged_weeks = @ + 1]

\* the late penalty at the flat step rate, not escalating with the week number
ChargeOverWeek_FlatPenalty(st, L) ==
    LET k == st.over_charged_weeks + 1
    IN  IF st.principal_rem > Eps
        THEN [st EXCEPT !.over_charged_weeks = k,
                        !.accrued_interest = @ + MulRate(st.principal_rem, L.weekly_interest_rate),
                        !.accrued_late = @ + MulRate(st.principal_rem, L.late_step_rate)]
        ELSE [st EXCEPT !.over_charged_weeks = k]

ChargeOverWeek(st, L) ==
    LET k == st.over_charged_weeks + 1
    IN  IF st.principal_rem > Eps
        THEN [st EXCEPT !.over_charged_weeks = k,
                        !.accrued_interest = @ + MulRate(st.principal_rem, L.weekly_interest_rate),
                        !.accrued_late = @ + MulRate(st.principal_rem, k * L.late_step_rate)]
        ELSE [st EXCEPT !.over_charged_weeks = k]

RECURSIVE ProcessAccrualUntil(_, _, _)
ProcessAccrualUntil(st, L, target) ==
    IF PrePending(st, L, target) THEN ProcessAccrualUntil(ChargePreWeek(st, L), L, target)
    ELSE IF OverPending(st, L, target) THEN ProcessAccrualUntil(ChargeOverWeek(st, L), L, target)
    ELSE st

\* the settlement test looking at interest and late alone
Cleared_AccruedOnly(st) == (st.accrued_interest + st.accrued_late) <= Eps

Cleared(st) ==
    st.principal_rem <= Eps /\ (st.accrued_interest + st.accrued_late) <= Eps

\* round(x, 2): x in units, the result in cents, ties to the even cent
Round2(x) ==
    LET q == x \div Cent
        r == x % Cent
    IN  IF 2 * r < Cent THEN q
        ELSE IF 2 * r > Cent THEN q + 1
        ELSE IF q % 2 = 0 THEN q ELSE q + 1

\* outstanding rounded from the unrounded balances instead of the rounded parts
MakeResult_SumUnrounded(st) ==
    LET principal_receivable == Round2(Max(0, st.principal_rem))
        accrued_interest_fees == Round2(Max(0, st.accrued_interest + st.accrued_late))
    IN  [principal_receivable |-> principal_receivable,
         accrued_interest_fees |-> accrued_interest_fees,
         outstanding |-> Round2(Max(0, st.principal_rem + st.accrued_interest
                                          + st.accrued_late)),
         principal |-> principal_receivable,
         interest |-> Round2(st.accrued_interest),
         late_incremental |-> Round2(st.accrued_late)]

MakeResult(st) ==
    LET principal_receivable == Round2(Max(0, st.principal_rem))
        accrued_interest_fees == Round2(Max(0, st.accrued_interest + st.accrued_late))
    IN  [principal_receivable |-> principal_receivable,
         accrued_interest_fees |-> accrued_interest_fees,
         outstanding |-> Round2((principal_receivable + accrued_interest_fees) * Cent),
         principal |-> principal_receivable,
         interest |-> Round2(st.accrued_interest),
         late_incremental |-> Round2(st.accrued_late)]

\* ------------------------------------------- the engine as a pure function
\* the payments of ps from index i on that are dated d, applied in order
RECURSIVE ApplyDate(_, _, _, _)
ApplyDate(st, ps, i, d) ==
    IF i <= Len(ps) /\ ps[i].paid_on = d
    THEN ApplyDate(ApplyPayment(st, ps[i].amount), ps, i + 1, d)
    ELSE [st |-> st, idx |-> i]

\* the walk over payment dates, then the final accrual to as_of
RECURSIVE Walk(_, _, _, _, _)
Walk(st, L, ps, i, as_of) ==
    IF i <= Len(ps)
    THEN LET r == ApplyDate(ProcessAccrualUntil(st, L, ps[i].paid_on), ps, i, ps[i].paid_on)
         IN  IF Cleared(r.st) THEN r.st ELSE Walk(r.st, L, ps, r.idx, as_of)
    ELSE ProcessAccrualUntil(st, L, as_of)

Loan(a) ==
    LET t == ResolveTerm(a.term_weeks, a.agreed_due_on, a.disbursed_on)
    IN  [disbursed_on |-> a.disbursed_on, term_weeks |-> t[1], agreed_due_on |-> t[2],
         weekly_interest_rate |-> a.weekly_interest_rate,
         late_step_rate |-> a.late_step_rate]

FinalState(a) ==
    Walk(InitState(a.principal), Loan(a), NormalizePays(a.payments, a.as_of), 1, a.as_of)

amount_due_with_payments(a) == MakeResult(FinalState(a))

\* ------------------------------------------------------------- the preview
\* scheduled_due_on_date: the returned amounts in cents
scheduled_due_on_date(principal, disbursed_on, due_on, weekly_interest_rate, processing_fee_rate) ==
    LET weeks == Max(1, ceil_weeks(due_on - disbursed_on))
        base_interest == MulRate(principal, weekly_interest_rate) * weeks
        processing_fee_upfront == (principal * processing_fee_rate) \div 100
        scheduled_due_amount == principal + base_interest
        net_cash_to_borrower == principal - processing_fee_upfront
    IN  [weeks |-> weeks,
         scheduled_due_amount |-> Round2(scheduled_due_amount),
         processing_fee_upfront |-> Round2(processing_fee_upfront),
         net_cash_to_borrower |-> Round2(net_cash_to_borrower)]

\* -------------------------------------------------- the engine, step by step
VARIABLES
    args,                \* the call's keyword arguments
    pays,                \* the normalised payment list
    term_weeks, agreed_due_on,
    principal_rem, accrued_interest, accrued_late,
    pre_charged_weeks, over_charged_weeks,
    idx, settled,
    pdate,               \* the payment date being processed
    target, caller,      \* the running _process_accrual_until call
    pc,
    result,              \* the returned dict, in cents
    ov_weeks,            \* what overdue_weeks returns for the loan at as_of
    ledger,              \* history: the interest and late charged and the
                         \* amounts taken from payments so far, which the
                         \* code computes and does not keep
    preview              \* what scheduled_due_on_date returns for the loan

vars == <<args, pays, term_weeks, agreed_due_on, principal_rem, accrued_interest,
          accrued_late, pre_charged_weeks, over_charged_weeks, idx, settled, pdate,
          target, caller, pc, result, ov_weeks, ledger, preview>>

St ==
    [principal_rem |-> principal_rem, accrued_interest |-> accrued_interest,
     accrued_late |-> accrued_late, pre_charged_weeks |-> pre_charged_weeks,
     over_charged_weeks |-> over_charged_weeks]

SetSt(s) ==
    /\ principal_rem' = s.principal_rem
    /\ accrued_interest' = s.accrued_interest
    /\ accrued_late' = s.accrued_late
    /\ pre_charged_weeks' = s.pre_charged_weeks
    /\ over_charged_weeks' = s.over_charged_weeks

CurLoan ==
    [disbursed_on |-> args.disbursed_on, term_weeks |-> term_weeks,
     agreed_due_on |-> agreed_due_on,
     weekly_interest_rate |-> args.weekly_interest_rate,
     late_step_rate |-> args.late_step_rate]

MakeArgs(p, d0, o, r, ps, t) ==
    [principal |-> p, disbursed_on |-> d0, as_of |-> d0 + o, payments |-> ps,
     weekly_interest_rate |-> r[1], late_step_rate |-> r[2],
     term_weeks |-> t[1], agreed_due_on |-> t[2]]

Init ==
    /\ \E d0 \in 0..MaxShift :
          \E p \in Principals :
             \E o \in Offsets, r \in Rates, ps \in PaymentLists(p, d0),
                t \in TermArgs(d0) :
                   args = MakeArgs(p, d0, o, r, ps, t)
    /\ pays = <<>>
    /\ term_weeks = args.term_weeks
    /\ agreed_due_on = args.agreed_due_on
    /\ principal_rem = args.principal
    /\ accrued_interest = 0
    /\ accrued_late = 0
    /\ pre_charged_weeks = 0
    /\ over_charged_weeks = 0
    /\ idx = 0
    /\ settled = FALSE
    /\ pdate = None
    /\ target = None
    /\ caller = "none"
    /\ pc = "normalize"
    /\ result = MakeResult(InitState(0))
    /\ ov_weeks = 0
    /\ ledger = [interest |-> 0, late |-> 0, taken |-> 0]
    /\ preview = [weeks |-> 0, scheduled_due_amount |-> 0,
                  processing_fee_upfront |-> 0, net_cash_to_borrower |-> 0]

Normalize ==
    /\ pc = "normalize"
    /\ pays' = NormalizePays(args.payments, args.as_of)
    /\ pc' = "resolve"
    /\ UNCHANGED <<preview, ledger, args, term_weeks, agreed_due_on,
                   principal_rem, accrued_interest, accrued_late,
                   pre_charged_weeks, over_charged_weeks, idx, settled, pdate,
                   target, caller, result, ov_weeks>>

Resolve ==
    /\ term_weeks' = ResolveTerm(term_weeks, agreed_due_on, args.disbursed_on)[1]
    /\ agreed_due_on' = ResolveTerm(term_weeks, agreed_due_on, args.disbursed_on)[2]
    /\ pc' = "walk"
    /\ UNCHANGED <<preview, ledger, args, pays, principal_rem, accrued_interest,
                   accrued_late, pre_charged_weeks, over_charged_weeks, idx,
                   settled, pdate, target, caller, result, ov_weeks>>

ResolveDefault ==
    /\ pc = "resolve"
    /\ agreed_due_on = None /\ term_weeks = None
    /\ Resolve

ResolveFromTerm ==
    /\ pc = "resolve"
    /\ agreed_due_on = None /\ term_weeks # None
    /\ Resolve

ResolveFromDue ==
    /\ pc = "resolve"
    /\ agreed_due_on # None
    /\ Resolve

WalkNext ==
    /\ pc = "walk"
    /\ idx < Len(pays) /\ ~settled
    /\ pdate' = pays[idx + 1].paid_on
    /\ target' = pays[idx + 1].paid_on
    /\ caller' = "walk"
    /\ pc' = "accrue"
    /\ UNCHANGED <<preview, ledger, args, pays, term_weeks, agreed_due_on,
                   principal_rem, accrued_interest, accrued_late,
                   pre_charged_weeks, over_charged_weeks, idx, settled, result,
                   ov_weeks>>

FinalAccrual ==
    /\ pc = "walk"
    /\ ~(idx < Len(pays) /\ ~settled)
    /\ ~settled
    /\ target' = args.as_of
    /\ caller' = "final"
    /\ pc' = "accrue"
    /\ UNCHANGED <<preview, ledger, args, pays, term_weeks, agreed_due_on,
                   principal_rem, accrued_interest, accrued_late,
                   pre_charged_weeks, over_charged_weeks, idx, settled, pdate,
                   result, ov_weeks>>

ChargePre ==
    /\ pc = "accrue"
    /\ PrePending(St, CurLoan, target)
    /\ SetSt(ChargePreWeek(St, CurLoan))
    /\ ledger' = [ledger EXCEPT !.interest = @ + WeekInterest(St, CurLoan)]
    /\ UNCHANGED <<preview, args, pays, term_weeks, agreed_due_on, idx, settled,
                   pdate, target, caller, pc, result, ov_weeks>>

ChargeOver ==
    /\ pc = "accrue"
    /\ ~PrePending(St, CurLoan, target)
    /\ OverPending(St, CurLoan, target)
    /\ SetSt(ChargeOverWeek(St, CurLoan))
    /\ ledger' = [ledger EXCEPT !.interest = @ + WeekInterest(St, CurLoan),
                                !.late = @ + WeekLate(St, CurLoan)]
    /\ UNCHANGED <<preview, args, pays, term_weeks, agreed_due_on, idx, settled,
                   pdate, target, caller, pc, result, ov_weeks>>

AccrueDone ==
    /\ pc = "accrue"
    /\ ~PrePending(St, CurLoan, target)
    /\ ~OverPending(St, CurLoan, target)
    /\ pc' = IF caller = "walk" THEN "apply" ELSE "return"
    /\ UNCHANGED <<preview, ledger, args, pays, term_weeks, agreed_due_on,
                   principal_rem, accrued_interest, accrued_late,
                   pre_charged_weeks, over_charged_weeks, idx, settled, pdate,
                   target, caller, result, ov_weeks>>

Apply ==
    /\ pc = "apply"
    /\ idx < Len(pays) /\ pays[idx + 1].paid_on = pdate
    /\ SetSt(ApplyPayment(St, pays[idx + 1].amount))
    /\ idx' = idx + 1
    /\ ledger' = [ledger EXCEPT !.taken = @ + TakenBy(St, pays[idx + 1].amount)]
    /\ UNCHANGED <<preview, args, pays, term_weeks, agreed_due_on, settled,
                   pdate, target, caller, pc, result, ov_weeks>>

Settle ==
    /\ pc = "apply"
    /\ ~(idx < Len(pays) /\ pays[idx + 1].paid_on = pdate)
    /\ Cleared(St)
    /\ settled' = TRUE
    /\ pc' = "return"
    /\ UNCHANGED <<preview, ledger, args, pays, term_weeks, agreed_due_on,
                   principal_rem, accrued_interest, accrued_late,
                   pre_charged_weeks, over_charged_weeks, idx, pdate, target,
                   caller, result, ov_weeks>>

NotSettled ==
    /\ pc = "apply"
    /\ ~(idx < Len(pays) /\ pays[idx + 1].paid_on = pdate)
    /\ ~Cleared(St)
    /\ pc' = "walk"
    /\ UNCHANGED <<preview, ledger, args, pays, term_weeks, agreed_due_on,
                   principal_rem, accrued_interest, accrued_late,
                   pre_charged_weeks, over_charged_weeks, idx, settled, pdate,
                   target, caller, result, ov_weeks>>

Return ==
    /\ pc = "return"
    /\ result' = MakeResult(St)
    /\ pc' = "done"
    /\ UNCHANGED <<preview, ledger, args, pays, term_weeks, agreed_due_on,
                   principal_rem, accrued_interest, accrued_late,
                   pre_charged_weeks, over_charged_weeks, idx, settled, pdate,
                   target, caller, ov_weeks>>

\* the reporting side's call of overdue_weeks, with the due date as passed
OverdueWeeksCall ==
    /\ pc = "done"
    /\ ov_weeks' = overdue_weeks(args.as_of, args.agreed_due_on, args.disbursed_on)
    /\ pc' = "reported"
    /\ UNCHANGED <<preview, ledger, args, pays, term_weeks, agreed_due_on,
                   principal_rem, accrued_interest, accrued_late,
                   pre_charged_weeks, over_charged_weeks, idx, settled, pdate,
                   target, caller, result>>

\* the form's call of scheduled_due_on_date, for a loan given its due date
ScheduledDueCall ==
    /\ pc = "reported"
    /\ args.agreed_due_on # None
    /\ preview' = scheduled_due_on_date(args.principal, args.disbursed_on,
                                        args.agreed_due_on,
                                        args.weekly_interest_rate,
                                        DefaultProcessingFeeRate)
    /\ pc' = "previewed"
    /\ UNCHANGED <<args, pays, term_weeks, agreed_due_on, principal_rem,
                   accrued_interest, accrued_late, pre_charged_weeks,
                   over_charged_weeks, idx, settled, pdate, target, caller,
                   result, ov_weeks, ledger>>

Next ==
    \/ Normalize
    \/ ResolveDefault
    \/ ResolveFromTerm
    \/ ResolveFromDue
    \/ WalkNext
    \/ FinalAccrual
    \/ ChargePre
    \/ ChargeOver
    \/ AccrueDone
    \/ Apply
    \/ Settle
    \/ NotSettled
    \/ Return
    \/ OverdueWeeksCall
    \/ ScheduledDueCall

Spec == Init /\ [][Next]_vars

\* every product of an amount and a rate the engine can form next is exact
ExactArith ==
    /\ ((principal_rem % RateDen) * args.weekly_interest_rate) % RateDen = 0
    /\ ((principal_rem % RateDen) * args.late_step_rate) % RateDen = 0

\* the step-by-step engine returns what the pure function returns
StepsAgree == pc \in {"done", "reported"} => result = amount_due_with_payments(args)

\* ---------------------------------------------------------------- claims
Returned == pc \in {"done", "reported"}

\* C1: the returned outstanding is exactly principal_receivable +
\* accrued_interest_fees, and accrued_interest_fees is the returned interest +
\* late_incremental up to one cent of rounding.
C1_OutstandingIsSum ==
    Returned =>
        /\ result.outstanding = result.principal_receivable + result.accrued_interest_fees
        /\ result.accrued_interest_fees - (result.interest + result.late_incremental)
              \in {-1, 0, 1}

\* a call returned after payments with interest and late that are not whole
\* cents, where rounding their sum differs from the sum of the rounded parts
C1_Witness ==
    /\ Returned
    /\ Len(pays) > 0
    /\ accrued_interest % Cent # 0
    /\ accrued_late % Cent # 0
    /\ result.accrued_interest_fees # result.interest + result.late_incremental

\* C2 as stated: the balances are never negative, principal_remaining never
\* exceeds the original principal, and the returned figures are non-negative
\* with principal_receivable <= principal, however large the payments.
C2_ReceivableWithinPrincipal ==
    /\ principal_rem >= 0
    /\ accrued_interest >= 0
    /\ accrued_late >= 0
    /\ principal_rem <= args.principal
    /\ Returned =>
          /\ result.principal_receivable >= 0
          /\ result.accrued_interest_fees >= 0
          /\ result.outstanding >= 0
          /\ result.principal_receivable * Cent <= args.principal

\* C2 as amended: the same, with the returned principal_receivable bounded by
\* the original principal rounded to 2 decimals.
C2_NonNegativeBounded ==
    /\ principal_rem >= 0
    /\ accrued_interest >= 0
    /\ accrued_late >= 0
    /\ principal_rem <= args.principal
    /\ Returned =>
          /\ result.principal_receivable >= 0
          /\ result.accrued_interest_fees >= 0
          /\ result.outstanding >= 0
          /\ result.principal_receivable <= Round2(args.principal)

\* a payment larger than everything owed has been applied (dated on
\* disbursed_on, before any interest, and larger than the principal)
C2_Witness ==
    /\ pc = "apply"
    /\ idx = 1
    /\ args.principal > 0
    /\ pays[1].paid_on = args.disbursed_on
    /\ pays[1].amount > args.principal
    /\ principal_rem = 0

\* C3: once the payments of a date have cleared principal, interest and late,
\* the balances are zero, no week after that date is charged, and the result is
\* zero at every as_of from that date on, whatever payments are dated later.
C3_SettlementSticky ==
    settled =>
        /\ principal_rem = 0 /\ accrued_interest = 0 /\ accrued_late = 0
        /\ pre_charged_weeks = TotalPreStarted(CurLoan, pdate)
        /\ over_charged_weeks = TotalOverStarted(CurLoan, pdate)
        /\ Returned =>
              /\ result.outstanding = 0
              /\ result.principal_receivable = 0
              /\ result.accrued_interest_fees = 0
        /\ \A o \in Offsets :
              args.disbursed_on + o >= pdate =>
                  LET r == amount_due_with_payments(
                               [args EXCEPT !.as_of = args.disbursed_on + o])
                  IN  /\ r.outstanding = 0
                      /\ r.principal_receivable = 0
                      /\ r.accrued_interest_fees = 0

\* a loan that had accrued interest was cleared by a payment, weeks have started
\* since, and a payment dated after the settlement is in the list
C3_Witness ==
    /\ Returned
    /\ settled
    /\ args.principal > 0
    /\ args.weekly_interest_rate > 0
    /\ pre_charged_weeks > 0
    /\ args.as_of >= pdate + 8
    /\ idx < Len(pays)

\* the call re-evaluated at the date disbursed_on + o
ResultAt(o) == amount_due_with_payments([args EXCEPT !.as_of = args.disbursed_on + o])

\* some payment of the list is dated after as_of and on or before disbursed_on + o
PaymentBetween(o) ==
    \E i \in 1..Len(args.payments) :
        /\ args.payments[i].paid_on > args.as_of
        /\ args.payments[i].paid_on <= args.disbursed_on + o

LaterOffsets == {o \in Offsets : args.disbursed_on + o >= args.as_of}

\* C4 as stated: with one payment list passed to both calls, payments dated
\* between the two evaluation dates included, a later as_of never gives a
\* smaller accrued_interest_fees unless the loan is then settled.
C4_MonotoneAnyPayments ==
    Returned =>
        \A o \in LaterOffsets :
            \/ ResultAt(o).accrued_interest_fees >= result.accrued_interest_fees
            \/ ResultAt(o).outstanding = 0

\* C4 as amended: when no payment of the list is dated after as_of1 and on or
\* before as_of2, a later as_of never gives a smaller accrued_interest_fees,
\* and a settled loan stays at 0.
C4_MonotoneSamePayments ==
    Returned =>
        \A o \in LaterOffsets :
            ~PaymentBetween(o) =>
                /\ ResultAt(o).accrued_interest_fees >= result.accrued_interest_fees
                /\ settled => ResultAt(o).accrued_interest_fees = 0

\* after a payment dated on as_of itself, with interest still owed, a later
\* evaluation date with no payment in between shows more interest
C4_Witness ==
    /\ Returned
    /\ Len(pays) > 0
    /\ pays[Len(pays)].paid_on = args.as_of
    /\ result.accrued_interest_fees > 0
    /\ \E o \in LaterOffsets :
          /\ ~PaymentBetween(o)
          /\ ResultAt(o).accrued_interest_fees > result.accrued_interest_fees

\* C5: a payment of amount a takes min(accrued_interest, a), then
\* min(accrued_late, rest), then min(principal_rem, rest) and the residue is
\* dropped; so the principal falls only when interest and late end at zero, and
\* a payment smaller than the accrued interest leaves the principal unchanged.
C5_Waterfall ==
    [][(pc = "apply" /\ idx' = idx + 1) =>
          LET a == pays[idx + 1].amount
              take_i == accrued_interest - accrued_interest'
              take_l == accrued_late - accrued_late'
              take_p == principal_rem - principal_rem'
              owed == principal_rem + accrued_interest + accrued_late
          IN  /\ take_i = Min(accrued_interest, a)
              /\ take_l = Min(accrued_late, a - take_i)
              /\ take_p = Min(principal_rem, a - take_i - take_l)
              /\ take_i + take_l + take_p = Min(a, owed)
              /\ take_p > 0 => accrued_interest' = 0 /\ accrued_late' = 0
              /\ a < accrued_interest =>
                    /\ principal_rem' = principal_rem
                    /\ accrued_late' = accrued_late
                    /\ accrued_interest' = accrued_interest - a]_vars

\* a payment smaller than the accrued interest has just been applied to a loan
\* that also carries a late penalty: interest remains, principal is untouched
C5_Witness ==
    /\ pc = "apply"
    /\ idx >= 1
    /\ pays[idx].paid_on = pdate
    /\ accrued_interest > 0
    /\ accrued_late > 0
    /\ args.principal > 0
    /\ principal_rem = args.principal

\* the worked example: 200,000 at the default rates, a one-week term, no
\* payments, evaluated 14 days after the due date
IsExample ==
    /\ args.principal = ExamplePrincipal
    /\ args.payments = <<>>
    /\ args.weekly_interest_rate = DefaultWeeklyRate
    /\ args.late_step_rate = DefaultLateStepRate
    /\ term_weeks = 1
    /\ agreed_due_on = args.disbursed_on + 7
    /\ args.as_of = agreed_due_on + 14

\* C6: the k-th started overdue week adds principal_rem * weekly_interest_rate
\* to interest and principal_rem * k * late_step_rate to late, on the balance of
\* that moment; the worked example returns interest 60,000.00, late 15,000.00
\* and outstanding 275,000.00.
C6_OverdueEscalation ==
    /\ [][over_charged_weeks' = over_charged_weeks + 1 =>
             LET k == over_charged_weeks'
                 fortieth == principal_rem \div RateDen
             IN  /\ principal_rem = RateDen * fortieth
                 /\ accrued_interest' - accrued_interest
                       = fortieth * args.weekly_interest_rate
                 /\ accrued_late' - accrued_late
                       = fortieth * (k * args.late_step_rate)
                 /\ principal_rem' = principal_rem]_vars
    /\ [](Returned /\ IsExample =>
             /\ result.interest = 6000000
             /\ result.late_incremental = 1500000
             /\ result.outstanding = 27500000)

\* the worked example has returned, two overdue weeks charged
C6_Witness ==
    /\ Returned
    /\ IsExample
    /\ over_charged_weeks = 2

\* C7: with term_weeks and agreed_due_on both omitted the result is that of
\* term_weeks = 1 alone and that of agreed_due_on = disbursed_on + 7 alone.
C7_DefaultTerm ==
    (Returned /\ args.term_weeks = None /\ args.agreed_due_on = None) =>
        /\ result = amount_due_with_payments([args EXCEPT !.term_weeks = 1])
        /\ result = amount_due_with_payments(
                        [args EXCEPT !.agreed_due_on = args.disbursed_on + 7])

\* a call with both omitted has returned for an overdue loan with payments
C7_Witness ==
    /\ Returned
    /\ args.term_weeks = None
    /\ args.agreed_due_on = None
    /\ args.principal > 0
    /\ Len(pays) > 0
    /\ over_charged_weeks >= 2
    /\ result.late_incremental > 0

\* how many entries of the list s are the payment p
Count(s, p) == Cardinality({i \in 1..Len(s) : s[i] = p})

\* the list s without the entries whose index is in drop
RECURSIVE Without(_, _, _)
Without(s, drop, i) ==
    IF i > Len(s) THEN <<>>
    ELSE (IF i \in drop THEN <<>> ELSE <<s[i]>>) \o Without(s, drop, i + 1)

LateIdx == {i \in 1..Len(args.payments) : args.payments[i].paid_on > args.as_of}

LatePayments ==
    {p \in PaymentsOn(args.principal, args.disbursed_on) : p.paid_on > args.as_of}

\* C8: payments dated after as_of do not participate: removing any of them, or
\* adding one, leaves every field of the result unchanged; the payments dated
\* on or before as_of, one dated on as_of itself included, are the ones walked
\* and applied.
C8_LaterPaymentsIgnored ==
    /\ pc # "normalize" =>
          \A i \in 1..Len(args.payments) :
              Count(pays, args.payments[i])
                  = IF args.payments[i].paid_on <= args.as_of
                    THEN Count(args.payments, args.payments[i])
                    ELSE 0
    /\ Returned =>
          /\ settled \/ idx = Len(pays)
          /\ \A drop \in SUBSET LateIdx :
                result = amount_due_with_payments(
                             [args EXCEPT !.payments = Without(args.payments, drop, 1)])
          /\ \A p \in LatePayments :
                result = amount_due_with_payments(
                             [args EXCEPT !.payments = Append(args.payments, p)])

\* a call has returned whose list holds a payment dated on as_of, which was
\* applied, and a payment dated after as_of
C8_Witness ==
    /\ Returned
    /\ args.principal > 0
    /\ ~settled
    /\ LateIdx # {}
    /\ Len(pays) = 1
    /\ pays[1].paid_on = args.as_of
    /\ principal_rem < args.principal

\* the balances after paying the amounts of the list s one after the other
RECURSIVE ApplyAll(_, _)
ApplyAll(st, s) ==
    IF s = <<>> THEN st ELSE ApplyAll(ApplyPayment(st, Head(s).amount), Tail(s))

Reordered(s, f) == [i \in 1..Len(s) |-> s[f[i]]]

\* the payments dated pdate, none of them applied yet
GroupStart == pc = "apply" /\ (idx = 0 \/ pays[idx].paid_on # pdate)

Group == SelectSeq(pays, LAMBDA p : p.paid_on = pdate)

\* C9: the result is the same for every order of the supplied list, and the
\* payments of one date leave the same interest, late and principal in whatever
\* order they are applied.
C9_OrderIndependent ==
    /\ Returned =>
          \A f \in Permutations(1..Len(args.payments)) :
              result = amount_due_with_payments(
                           [args EXCEPT !.payments = Reordered(args.payments, f)])
    /\ GroupStart =>
          \A f \in Permutations(1..Len(Group)) :
              ApplyAll(St, Reordered(Group, f)) = ApplyDate(St, pays, idx + 1, pdate).st

\* a call has returned for a list supplied out of order whose two payments
\* share a date and differ in amount, the smaller one not covering the interest
C9_Witness ==
    /\ Returned
    /\ args.principal > 0
    /\ Len(pays) = 2
    /\ args.payments # pays
    /\ pays[1].paid_on = pays[2].paid_on
    /\ pays[1].amount < pays[2].amount
    /\ pre_charged_weeks > 0
    /\ ~settled
    /\ principal_rem < args.principal

\* the least n with 7 * n >= days, 0 for days <= 0
StartedWeeks(days) ==
    IF days <= 0 THEN 0
    ELSE CHOOSE n \in 1..days : 7 * n >= days /\ 7 * (n - 1) < days

\* C10: overdue_weeks is 0 without a due date or when as_of <= due_on, else the
\* ceiling of the days overdue / 7 (1 day is 1 week, 8 days are 2); and for a
\* loan that is not settled the engine has charged
\* overdue_weeks(as_of, agreed_due_on, disbursed_on) overdue weeks at as_of.
C10_StartedWeeks ==
    /\ pc = "reported" =>
          /\ args.agreed_due_on = None => ov_weeks = 0
          /\ args.agreed_due_on # None =>
                /\ ov_weeks = StartedWeeks(args.as_of - args.agreed_due_on)
                /\ args.as_of <= args.agreed_due_on => ov_weeks = 0
                /\ args.as_of - args.agreed_due_on = 1 => ov_weeks = 1
                /\ args.as_of - args.agreed_due_on = 8 => ov_weeks = 2
    /\ (Returned /\ ~settled) =>
          /\ over_charged_weeks
                = overdue_weeks(args.as_of, agreed_due_on, args.disbursed_on)
          /\ over_charged_weeks = StartedWeeks(args.as_of - agreed_due_on)

\* an unsettled loan with payments, evaluated 8 days after the due date it was
\* given, has been reported with two overdue weeks charged
C10_Witness ==
    /\ pc = "reported"
    /\ ~settled
    /\ args.principal > 0
    /\ Len(pays) > 0
    /\ args.agreed_due_on # None
    /\ args.as_of - args.agreed_due_on = 8
    /\ ov_weeks = 2
    /\ over_charged_weeks = 2

\* this step charges a week, pre-due or overdue
ChargeStep ==
    pre_charged_weeks' # pre_charged_weeks \/ over_charged_weeks' # over_charged_weeks

\* week k counted from the date from has not started as of the date d
StartsAfter(k, from, d) == d - from <= 7 * (k - 1)

\* C11, the accrual order: when the payments of a date d are about to be
\* applied every pre-due and overdue week started as of d has been charged;
\* weeks are charged only while accruing, on the principal_rem of that moment,
\* before any payment dated d is applied, and a week charged after a payment
\* was applied starts after that payment's date.
C11_Order ==
    /\ [](GroupStart =>
             /\ pre_charged_weeks
                   = Min(StartedWeeks(Min(pdate, agreed_due_on) - args.disbursed_on),
                         term_weeks)
             /\ over_charged_weeks = StartedWeeks(pdate - agreed_due_on))
    /\ [][ChargeStep =>
             /\ pc = "accrue"
             /\ principal_rem' = principal_rem
             /\ accrued_interest' - accrued_interest
                   = MulRate(principal_rem, args.weekly_interest_rate)
             /\ caller = "walk" =>
                   /\ target = pdate
                   /\ pays[idx + 1].paid_on = pdate
                   /\ idx = 0 \/ pays[idx].paid_on < pdate
             /\ \A j \in 1..idx :
                   /\ pre_charged_weeks' # pre_charged_weeks =>
                         StartsAfter(pre_charged_weeks', args.disbursed_on,
                                     pays[j].paid_on)
                   /\ over_charged_weeks' # over_charged_weeks =>
                         StartsAfter(over_charged_weeks', agreed_due_on,
                                     pays[j].paid_on)]_vars

\* C11's two particular cases
FirstOnDisbursal == GroupStart /\ idx = 0 /\ pdate = args.disbursed_on
FirstInWeekOne == GroupStart /\ idx = 0 /\ pdate - args.disbursed_on \in 1..7

\* C11 as stated: the accrual order, and in particular a payment dated on
\* disbursed_on meets no accrued interest and goes entirely to principal, while
\* a payment dated 1 to 7 days after disbursed_on meets one week of interest on
\* the full principal.
C11_AccrualBeforePayment ==
    /\ C11_Order
    /\ [](FirstOnDisbursal => accrued_interest = 0 /\ accrued_late = 0)
    /\ [][(pc = "apply" /\ idx' = idx + 1 /\ pdate = args.disbursed_on) =>
             principal_rem - principal_rem'
                 = Min(pays[idx + 1].amount, principal_rem)]_vars
    /\ [](FirstInWeekOne =>
             accrued_interest = MulRate(args.principal, args.weekly_interest_rate))

\* C11 as amended: the same, the payment dated 1 to 7 days after disbursed_on
\* meeting exactly one week of interest on the full principal, and no late
\* penalty, when it is dated on or before agreed_due_on; dated after
\* agreed_due_on it also meets the overdue weeks started by then.
C11_AccrualBeforePaymentByDue ==
    /\ C11_Order
    /\ [](FirstOnDisbursal => accrued_interest = 0 /\ accrued_late = 0)
    /\ [][(pc = "apply" /\ idx' = idx + 1 /\ pdate = args.disbursed_on) =>
             principal_rem - principal_rem'
                 = Min(pays[idx + 1].amount, principal_rem)]_vars
    /\ [](FirstInWeekOne =>
             /\ pdate <= agreed_due_on =>
                   /\ accrued_interest
                         = MulRate(args.principal, args.weekly_interest_rate)
                   /\ accrued_late = 0
             /\ accrued_interest
                   = (pre_charged_weeks + over_charged_weeks)
                        * MulRate(args.principal, args.weekly_interest_rate))

\* the first payment, dated 7 days after disbursed_on and on the due date, is
\* about to be applied to a loan that carries one week of interest
C11_Witness ==
    /\ FirstInWeekOne
    /\ pdate = agreed_due_on
    /\ args.principal > 0
    /\ accrued_interest > 0
    /\ pre_charged_weeks = 1
    /\ over_charged_weeks = 0

\* term_weeks and agreed_due_on hold their resolved values
Resolved == pc \notin {"normalize", "resolve"}

\* C12: pre_charged_weeks never decreases, never exceeds term_weeks nor
\* ceil(days from disbursed_on to agreed_due_on / 7); it grows by one per
\* charge, a charge adds principal_rem * weekly_interest_rate once, for a week
\* that has started as of the target date and starts before agreed_due_on, and
\* interest grows by no other step than a week's charge; a loan that is not
\* settled has had every started pre-due week charged when the call returns.
C12_PreDueCapped ==
    /\ [](Resolved =>
             /\ pre_charged_weeks <= term_weeks
             /\ pre_charged_weeks <= StartedWeeks(agreed_due_on - args.disbursed_on))
    /\ []((Returned /\ ~settled) =>
             pre_charged_weeks
                 = Min(Min(StartedWeeks(args.as_of - args.disbursed_on),
                           StartedWeeks(agreed_due_on - args.disbursed_on)),
                       term_weeks))
    /\ [][/\ pre_charged_weeks' >= pre_charged_weeks
          /\ pre_charged_weeks' <= pre_charged_weeks + 1
          /\ accrued_interest' > accrued_interest => ChargeStep
          /\ pre_charged_weeks' = pre_charged_weeks + 1 =>
                /\ over_charged_weeks' = over_charged_weeks
                /\ over_charged_weeks = 0
                /\ accrued_interest' - accrued_interest
                      = MulRate(principal_rem, args.weekly_interest_rate)
                /\ accrued_late' = accrued_late
                /\ 7 * pre_charged_weeks < target - args.disbursed_on
                /\ 7 * pre_charged_weeks < agreed_due_on - args.disbursed_on]_vars

\* two payment dates inside the first week of a two-week loan: the call has
\* returned for an as_of past the due date with exactly the two weeks of the
\* term charged, interest still owed
C12_Witness ==
    /\ Returned
    /\ ~settled
    /\ args.principal > 0
    /\ args.weekly_interest_rate > 0
    /\ Len(pays) = 2
    /\ pays[1].paid_on = args.disbursed_on + 1
    /\ pays[2].paid_on = args.disbursed_on + 7
    /\ term_weeks = 2
    /\ args.as_of > agreed_due_on
    /\ pre_charged_weeks = 2
    /\ accrued_interest > 0

ExtraPayments ==
    {p \in PaymentsOn(args.principal, args.disbursed_on) : p.paid_on <= args.as_of}

\* the call with the payment p added to its list
WithPayment(p) == amount_due_with_payments([args EXCEPT !.payments = Append(@, p)])

\* C14: adding one more payment of any amount, dated on any date up to as_of,
\* to the list of a call never increases the returned outstanding,
\* principal_receivable or accrued_interest_fees.
C14_PayingNeverHurts ==
    (Returned /\ Len(args.payments) < MaxPays) =>
        \A p \in ExtraPayments :
            /\ WithPayment(p).outstanding <= result.outstanding
            /\ WithPayment(p).principal_receivable <= result.principal_receivable
            /\ WithPayment(p).accrued_interest_fees <= result.accrued_interest_fees

\* an overdue loan with one payment has returned with interest and late owed,
\* and a further payment dated before the one it has lowers all three figures
C14_Witness ==
    /\ Returned
    /\ ~settled
    /\ Len(pays) = 1
    /\ Len(args.payments) = 1
    /\ over_charged_weeks >= 1
    /\ result.accrued_interest_fees > 0
    /\ \E p \in ExtraPayments :
          /\ p.paid_on < pays[1].paid_on
          /\ WithPayment(p).outstanding < result.outstanding
          /\ WithPayment(p).principal_receivable < result.principal_receivable
          /\ WithPayment(p).accrued_interest_fees < result.accrued_interest_fees
          /\ WithPayment(p).outstanding > 0

\* everything owed: principal, interest and late, before rounding
Owed == principal_rem + accrued_interest + accrued_late

\* the amounts of the list s add up to at least t
RECURSIVE Covers(_, _)
Covers(s, t) ==
    IF t <= 0 THEN TRUE
    ELSE IF s = <<>> THEN FALSE
    ELSE Covers(Tail(s), t - Head(s).amount)

\* C15: at every point of the call principal_rem + accrued_interest +
\* accrued_late is the original principal plus the interest and the late
\* penalty charged so far minus the amounts taken from payments so far; a
\* payment gives min(its amount, the total owed just before it); the amounts
\* taken do not exceed the sum of the payments applied; and the returned
\* outstanding is that unrounded total rounded, within a cent.
C15_Conservation ==
    /\ [](/\ Owed = args.principal + ledger.interest + ledger.late - ledger.taken
          /\ accrued_interest <= ledger.interest
          /\ accrued_late <= ledger.late
          /\ Covers(SubSeq(pays, 1, idx), ledger.taken)
          /\ Returned =>
                /\ result.outstanding * Cent - Owed \in -Cent..Cent
                /\ Covers(pays, ledger.taken))
    /\ [][(pc = "apply" /\ idx' = idx + 1) =>
             /\ ledger'.taken - ledger.taken = Min(pays[idx + 1].amount, Owed)
             /\ Owed - Owed' = Min(pays[idx + 1].amount, Owed)]_vars
    /\ [][Owed' - Owed = (ledger'.interest - ledger.interest)
                            + (ledger'.late - ledger.late)
                            - (ledger'.taken - ledger.taken)]_vars

\* an overdue loan has returned unsettled after two payments on different
\* dates that reached the principal, with a late penalty charged and interest
\* and late owed again at as_of
C15_Witness ==
    /\ Returned
    /\ ~settled
    /\ idx = 2
    /\ pays[1].paid_on < pays[2].paid_on
    /\ ledger.late > 0
    /\ ledger.taken > 0
    /\ principal_rem < args.principal
    /\ accrued_interest > 0
    /\ accrued_late > 0
    /\ args.as_of > pays[2].paid_on

\* the engine and the preview have both been called for a loan without
\* payments, given its due date alone and evaluated on that date
AtDueDate ==
    /\ pc = "previewed"
    /\ args.payments = <<>>
    /\ args.term_weeks = None
    /\ args.as_of = args.agreed_due_on

\* C16: for a loan without payments, given agreed_due_on >= disbursed_on alone
\* and evaluated at as_of = agreed_due_on, the engine's outstanding equals the
\* preview's scheduled_due_amount = principal + principal * rate * weeks with
\* weeks = max(1, ceil(days / 7)), and the engine's late_incremental is 0.
C16_PreviewAgrees ==
    AtDueDate =>
        /\ preview.weeks = Max(1, StartedWeeks(args.agreed_due_on - args.disbursed_on))
        /\ preview.scheduled_due_amount
              = Round2(args.principal
                         + preview.weeks
                             * MulRate(args.principal, args.weekly_interest_rate))
        /\ result.outstanding = preview.scheduled_due_amount
        /\ result.late_incremental = 0

\* what does hold of the two at the due date: no late penalty; the preview
\* counts max(1, ceil(days / 7)) weeks and the engine ceil(days / 7); with
\* the due date after disbursed_on the two amounts are within a cent of each
\* other, and equal when principal and interest are whole cents
PreviewWithinCent ==
    AtDueDate =>
        /\ result.late_incremental = 0
        /\ pre_charged_weeks = StartedWeeks(args.agreed_due_on - args.disbursed_on)
        /\ args.agreed_due_on > args.disbursed_on =>
              /\ pre_charged_weeks = preview.weeks
              /\ result.outstanding - preview.scheduled_due_amount \in {-1, 0, 1}
              /\ (args.principal % Cent = 0 /\ accrued_interest % Cent = 0) =>
                    result.outstanding = preview.scheduled_due_amount
        /\ args.agreed_due_on = args.disbursed_on =>
              /\ result.outstanding = Round2(args.principal)
              /\ preview.weeks = 1

====
